---- MODULE Spec2Model ----
(***************************************************************************)
(* A model of the two command-line tools of the repository:                *)
(*   - json-flattener/json_flattener.py  (JsonFlattener, AppJsonFlattener)  *)
(*   - csv2json-converter/csv2json.py    (Csv2JsonConverter, __main__)      *)
(*                                                                         *)
(* The strings flatten builds keys from are sequences of one-character    *)
(* strings, so that concatenation, emptiness and int-to-text formatting    *)
(* are computed and not assumed.  File names are whole strings.            *)
(*                                                                         *)
(* Spec is the flattener: an object with its two separators, flatten       *)
(* called on a document and then on its own result.  SpecTools is a file   *)
(* system on which the converter is constructed and run, or one of the two *)
(* scripts is run.                                                         *)
(***************************************************************************)
EXTENDS Integers, Sequences, FiniteSets, TLC

VARIABLES
    \* ---- JsonFlattener object and the last call of flatten ----
    dict_sep,     \* self._dict_sep (a string)
    list_sep,     \* self._list_sep (a string)
    calls,        \* how many times flatten has been called on the object
    data,         \* the argument of the last call of flatten
    flat_data,    \* the mapping the last call of flatten returned
    \* ---- the file system and a run of one of the two tools ----
    fs_files,     \* the files that exist: a function from path to content
    fs_dirs,      \* the directories that exist
    pc,           \* "start", "constructed" (a Csv2JsonConverter exists), "done"
    conv,         \* the Csv2JsonConverter object: _source, _destination, _over_write
    call,         \* the last operation run and its arguments
    outcome,      \* how it ended: the exception raised and the exit status
    pre_files,    \* the files as they were when the last operation began
    pre_dirs      \* the directories as they were when the last operation began

flattener_vars == <<dict_sep, list_sep, calls, data, flat_data>>
tool_vars == <<fs_files, fs_dirs, pc, conv, call, outcome, pre_files, pre_dirs>>
vars == <<flattener_vars, tool_vars>>

(***************************************************************************)
(* Bounds of the model.                                                    *)
(***************************************************************************)
\* The largest JSON tree given to flatten, in nodes (containers and scalars).
MaxNodes == 4
\* The most data rows of a CSV source file.
MaxRows == 2

(***************************************************************************)
(* Strings.                                                                *)
(***************************************************************************)
EmptyStr == <<>>

Digits == <<"0", "1", "2", "3", "4", "5", "6", "7", "8", "9">>

\* Python's str(n) for a non-negative int: its decimal digits.
RECURSIVE IntToStr(_)
IntToStr(n) ==
    IF n < 10 THEN <<Digits[n + 1]>>
    ELSE IntToStr(n \div 10) \o <<Digits[(n % 10) + 1]>>

(***************************************************************************)
(* JSON values as json.load builds them: dict (ordered, distinct string    *)
(* keys), list, and scalars.  A dict key is a record so that the int keys  *)
(* that dict(enumerate(...)) makes can be told from string keys, as        *)
(* isinstance(k, int) does.                                                *)
(***************************************************************************)
StrKey(s) == [isint |-> FALSE, n |-> 0, s |-> s]
IntKey(i) == [isint |-> TRUE, n |-> i, s |-> EmptyStr]

Scalar(x) == [t |-> "scalar", v |-> x, items |-> <<>>]
\* items: a sequence of <<key, value>> pairs
Dict(items) == [t |-> "dict", v |-> 0, items |-> items]
\* items: a sequence of values
List(items) == [t |-> "list", v |-> 0, items |-> items]

\* isinstance(x, (dict, list))
IsContainer(x) == x.t \in {"dict", "list"}

\* dict(enumerate(lst)): the list as a dict keyed by its indices 0, 1, ...
Enumerate(lst) ==
    Dict([i \in 1..Len(lst.items) |-> <<IntKey(i - 1), lst.items[i]>>])

(***************************************************************************)
(* The mapping flatten builds (a Python dict with string keys): a sequence *)
(* of <<key, value>> pairs with distinct keys, in insertion order.         *)
(***************************************************************************)
EmptyDict == <<>>

Keys(d) == {d[i][1] : i \in 1..Len(d)}

HasKey(d, k) == \E i \in 1..Len(d) : d[i][1] = k

Get(d, k) == d[CHOOSE i \in 1..Len(d) : d[i][1] = k][2]

\* (a changed SetItem: a present key keeps its first value, as setdefault does)
SetItemKeepFirst(d, k, v) ==
    IF \E i \in 1..Len(d) : d[i][1] = k THEN d ELSE Append(d, <<k, v>>)

\* d[k] = v: a present key keeps its place and takes the new value
SetItem(d, k, v) ==
    IF HasKey(d, k)
    THEN [i \in 1..Len(d) |-> IF d[i][1] = k THEN <<k, v>> ELSE d[i]]
    ELSE Append(d, <<k, v>>)

\* d.update(other): other's items are assigned in other's order
RECURSIVE Update(_, _)
Update(d, other) ==
    IF other = <<>> THEN d
    ELSE Update(SetItem(d, other[1][1], other[1][2]), Tail(other))

\* dict equality (==) of two such mappings: same keys, same values, any order
DictEq(d, e) ==
    /\ Keys(d) = Keys(e)
    /\ \A k \in Keys(d) : Get(d, k) = Get(e, k)

(***************************************************************************)
(* JsonFlattener.flatten                                                   *)
(***************************************************************************)
\* line 59: the top-level data is a primitive and there is no parent key
NothingToFlatten(x, parent_key) == ~IsContainer(x) /\ parent_key = EmptyStr

\* (a changed Sep: the two separators taken the wrong way round)
SepSwapped(k) == IF k.isint THEN dict_sep ELSE list_sep

\* (a changed Sep: dict_sep whatever the key is)
SepAlwaysDict(k) == dict_sep

\* line 67: list_sep for int keys, dict_sep for string keys
Sep(k) == IF k.isint THEN list_sep ELSE dict_sep

\* str(k) and the formatting of k in an f-string
KeyText(k) == IF k.isint THEN IntToStr(k.n) ELSE k.s

\* (a changed CurKey: the parent key left out)
CurKeyNoParent(parent_key, sep, k) == KeyText(k)

\* (a changed CurKey: the separator written even with no parent key)
CurKeyAlwaysSep(parent_key, sep, k) == parent_key \o sep \o KeyText(k)

\* line 70: f"{parent_key}{sep}{k}" if parent_key else str(k)
CurKey(parent_key, sep, k) ==
    IF parent_key # EmptyStr THEN parent_key \o sep \o KeyText(k)
    ELSE KeyText(k)

\* (a changed LoopBody: an empty dict or list stored as if it were a scalar)
LoopBodyKeepEmpty(acc, cur_key, v, sub) ==
    IF IsContainer(v) /\ v.items # <<>> THEN Update(acc, sub)
    ELSE SetItem(acc, cur_key, v)

\* lines 72-80, one pass of the loop body: what becomes of flat_data, given
\* the mapping `sub` the recursive call (if any) returned
LoopBody(acc, cur_key, v, sub) ==
    IF IsContainer(v) THEN Update(acc, sub) ELSE SetItem(acc, cur_key, v)

RECURSIVE flatten(_, _), FlattenLoop(_, _, _)
\* lines 65-80: the loop over data.items(), from the items still to visit
FlattenLoop(items, parent_key, acc) ==
    IF items = <<>> THEN acc
    ELSE LET k == items[1][1]
             v == items[1][2]
             sep == Sep(k)
             cur_key == CurKey(parent_key, sep, k)
             sub == IF v.t = "dict" THEN flatten(v, cur_key)
                    ELSE IF v.t = "list" THEN flatten(Enumerate(v), cur_key)
                    ELSE EmptyDict
         IN  FlattenLoop(Tail(items), parent_key, LoopBody(acc, cur_key, v, sub))

\* lines 41-82.  (A scalar with a non-empty parent key has no .items(); no
\* call of the program passes one: the recursion passes dicts only.)
flatten(x, parent_key) ==
    IF NothingToFlatten(x, parent_key) THEN EmptyDict
    ELSE LET d == IF x.t = "list" THEN Enumerate(x) ELSE x
         IN  FlattenLoop(d.items, parent_key, EmptyDict)

(***************************************************************************)
(* The inputs of the model.                                                *)
(***************************************************************************)
\* The object keys of the JSON documents: "", "a" and "a.a"
JsonKeys == {EmptyStr, <<"a">>, <<"a", ".", "a">>}

\* The (dict_sep, list_sep) pairs objects are constructed with; the first is
\* the default of __init__
DefaultSeps == << <<".">>, <<"_", "_">> >>
SepPairs == {DefaultSeps, << <<".">>, <<".">> >>, << <<"_">>, <<"_", "_">> >>}

\* The sequences of m distinct keys
KeySeqs(m) ==
    {ks \in [1..m -> JsonKeys] : \A i, j \in 1..m : ks[i] = ks[j] => i = j}

RECURSIVE Shapes(_), Forests(_)
\* The JSON trees of exactly n nodes, every scalar written 0
Shapes(n) ==
    (IF n = 1 THEN {Scalar(0)} ELSE {})
    \cup {List(f) : f \in Forests(n - 1)}
    \cup UNION {{Dict([i \in 1..Len(f) |-> <<StrKey(ks[i]), f[i]>>]) :
                    ks \in KeySeqs(Len(f))} : f \in Forests(n - 1)}

\* The sequences of trees of n nodes in all
Forests(n) ==
    IF n = 0 THEN {<<>>}
    ELSE UNION {{<<t>> \o f : t \in Shapes(k), f \in Forests(n - k)} : k \in 1..n}

\* The values of a container's items, in order
Children(x) ==
    IF x.t = "dict" THEN [i \in 1..Len(x.items) |-> x.items[i][2]] ELSE x.items

RECURSIVE NumLeaves(_), LeavesIn(_)
\* The number of scalars in a tree, and in a sequence of trees
NumLeaves(x) == IF x.t = "scalar" THEN 1 ELSE LeavesIn(Children(x))
LeavesIn(f) == IF f = <<>> THEN 0 ELSE NumLeaves(f[1]) + LeavesIn(Tail(f))

\* The tree with its scalars written base+1, base+2, ... in document order,
\* so that every scalar of a document is told from every other
RECURSIVE Numbered(_, _)
Numbered(x, base) ==
    IF x.t = "scalar" THEN Scalar(base + 1)
    ELSE LET at(i) == base + LeavesIn(SubSeq(Children(x), 1, i - 1))
         IN  IF x.t = "list"
             THEN List([i \in 1..Len(x.items) |-> Numbered(x.items[i], at(i))])
             ELSE Dict([i \in 1..Len(x.items) |->
                          <<x.items[i][1], Numbered(x.items[i][2], at(i))>>])

\* The two documents the specification flattens by name:
\* [{"a": 1}, {"a": 2}] and {"a": [1, 2]}
ArrayOfObjects ==
    List(<<Dict(<< <<StrKey(<<"a">>), Scalar(1)>> >>),
           Dict(<< <<StrKey(<<"a">>), Scalar(2)>> >>)>>)
ObjectOfArray ==
    Dict(<< <<StrKey(<<"a">>), List(<<Scalar(1), Scalar(2)>>)>> >>)

\* The documents flatten is called with
Inputs ==
    {Numbered(x, 0) : x \in UNION {Shapes(n) : n \in 1..MaxNodes}}
    \cup {ArrayOfObjects, ObjectOfArray}

\* A flattened mapping as the dict it is, to be passed to flatten again
AsDict(d) == Dict([i \in 1..Len(d) |-> <<StrKey(d[i][1]), d[i][2]>>])

(***************************************************************************)
(* Paths (pathlib.Path): the directories, then the name as stem + suffix.  *)
(***************************************************************************)
Path(dir, stem, ext) == [dir |-> dir, stem |-> stem, ext |-> ext]

\* path.suffix.lower(), for the suffixes of the model
Lower(ext) ==
    CASE ext = ".CSV" -> ".csv"
      [] ext = ".JSON" -> ".json"
      [] OTHER -> ext

\* path.exists(): a file, or a directory of that name
Exists(path) ==
    \/ path \in DOMAIN fs_files
    \/ path.ext = "" /\ Append(path.dir, path.stem) \in fs_dirs

\* The directories mkdir(parents=True, exist_ok=True) leaves in existence
WithParents(dir) == fs_dirs \cup {SubSeq(dir, 1, n) : n \in 0..Len(dir)}

(***************************************************************************)
(* Python values given as arguments: a str (here always a path), a bool,   *)
(* or a value of another type.                                             *)
(***************************************************************************)
NoPath == Path(<<>>, "", "")
PyStr(path) == [ty |-> "str", path |-> path, b |-> FALSE]
PyBool(b) == [ty |-> "bool", path |-> NoPath, b |-> b]
PyInt == [ty |-> "int", path |-> NoPath, b |-> FALSE]

(***************************************************************************)
(* File contents.                                                          *)
(***************************************************************************)
\* A CSV text: its rows, the header first, each a sequence of cells
CsvText(rows) == [kind |-> "csv", body |-> rows]
\* Bytes that are not UTF-8
Binary == [kind |-> "binary", body |-> <<>>]
\* A text the csv module rejects (csv.Error)
BadCsv == [kind |-> "badcsv", body |-> <<>>]
\* A JSON text holding the value x
JsonText(x) == [kind |-> "json", body |-> <<x>>]
\* Whatever a destination file held before the run
OldText == [kind |-> "old", body |-> <<>>]
\* A file opened with mode "w": created or truncated, nothing written yet,
\* or only a part of the output before the write failed
Unfinished == [kind |-> "unfinished", body |-> <<>>]

\* list(csv.DictReader(file)): one dict per data row, keyed by the header
DictRows(text) ==
    IF Len(text.body) <= 1 THEN <<>>
    ELSE [r \in 1..(Len(text.body) - 1) |->
            [c \in 1..Len(text.body[1]) |->
                <<text.body[1][c], text.body[r + 1][c]>>]]

(***************************************************************************)
(* Exceptions: the classes of the model with their base classes, and the   *)
(* class a try statement's handlers re-raise.                              *)
(***************************************************************************)
Bases(exc) ==
    CASE exc = "PermissionError" -> {"PermissionError", "OSError", "Exception"}
      [] exc = "FileNotFoundError" -> {"FileNotFoundError", "OSError", "Exception"}
      [] exc = "FileExistsError" -> {"FileExistsError", "OSError", "Exception"}
      [] exc = "OSError" -> {"OSError", "Exception"}
      [] exc = "UnicodeDecodeError" -> {"UnicodeDecodeError", "ValueError", "Exception"}
      [] exc = "JSONDecodeError" -> {"JSONDecodeError", "ValueError", "Exception"}
      [] exc = "ValueError" -> {"ValueError", "Exception"}
      [] exc = "TypeError" -> {"TypeError", "Exception"}
      [] exc = "csv.Error" -> {"csv.Error", "Exception"}
      [] OTHER -> {exc, "Exception"}

\* The first handler, in order, whose class exc is an instance of
Reraised(handlers, exc) ==
    LET n == CHOOSE i \in 1..Len(handlers) :
                 /\ handlers[i][1] \in Bases(exc)
                 /\ \A j \in 1..(i - 1) : handlers[j][1] \notin Bases(exc)
    IN  handlers[n][2]

\* csv2json.py lines 74-83
ConvertHandlers ==
    << <<"PermissionError", "PermissionError">>,
       <<"UnicodeDecodeError", "ValueError">>,
       <<"csv.Error", "ValueError">>,
       <<"TypeError", "ValueError">>,
       <<"Exception", "RuntimeError">> >>

\* json_flattener.py lines 118-129
MainHandlers ==
    << <<"PermissionError", "PermissionError">>,
       <<"UnicodeDecodeError", "ValueError">>,
       <<"UnicodeEncodeError", "ValueError">>,
       <<"Exception", "RuntimeError">> >>

(***************************************************************************)
(* Csv2JsonConverter.  Each setter gives the exception it raises, "none"   *)
(* if it returns.                                                          *)
(***************************************************************************)
\* lines 19-29
SetSource(source) ==
    IF source.ty # "str" THEN "TypeError"
    ELSE IF Lower(source.path.ext) # ".csv" THEN "ValueError"
    ELSE IF ~Exists(source.path) THEN "FileNotFoundError"
    ELSE "none"

\* lines 39-43: self._destination once _set_destination has returned
DestinationPath(source, destination) ==
    IF destination.path.ext = ""
    THEN Path(Append(destination.path.dir, destination.path.stem),
              source.path.stem, ".json")
    ELSE destination.path

\* lines 35-46
SetDestination(source, destination) ==
    IF destination.ty # "str" THEN "TypeError"
    ELSE IF destination.path.ext = "" THEN "none"
    ELSE IF Lower(destination.path.ext) # ".json" THEN "ValueError"
    ELSE "none"

\* line 44: the directories once _set_destination has run
DirsAfterSetDestination(source, destination) ==
    IF destination.ty = "str" /\ destination.path.ext = ""
    THEN WithParents(DestinationPath(source, destination).dir)
    ELSE fs_dirs

\* lines 52-56
SetOverWrite(over_write) ==
    IF over_write.ty # "bool" THEN "TypeError" ELSE "none"

\* lines 9-13, __init__: the exception raised and the directories left
InitOutcome(source, destination, over_write) ==
    IF SetSource(source) # "none"
    THEN [exc |-> SetSource(source), dirs |-> fs_dirs]
    ELSE IF SetDestination(source, destination) # "none"
    THEN [exc |-> SetDestination(source, destination),
          dirs |-> DirsAfterSetDestination(source, destination)]
    ELSE [exc |-> SetOverWrite(over_write),
          dirs |-> DirsAfterSetDestination(source, destination)]

\* The object __init__ leaves when it returns
Converter(source, destination, over_write) ==
    [source |-> source.path,
     destination |-> DestinationPath(source, destination),
     over_write |-> over_write.b]

NoConverter == [source |-> NoPath, destination |-> NoPath, over_write |-> FALSE]

\* The files with `path` holding `text`
WithFile(files, path, text) ==
    [q \in DOMAIN files \cup {path} |-> IF q = path THEN text ELSE files[q]]

\* lines 66-69: the source is read and parsed; `fault` is what the
\* environment does to this run
ReadCsv(path, fault) ==
    IF fault = "read_denied"
    THEN [exc |-> "PermissionError", cause |-> "read_denied", data |-> <<>>]
    ELSE IF fs_files[path].kind = "binary"
    THEN [exc |-> "UnicodeDecodeError", cause |-> "undecodable", data |-> <<>>]
    ELSE IF fs_files[path].kind = "badcsv"
    THEN [exc |-> "csv.Error", cause |-> "malformed", data |-> <<>>]
    ELSE IF DictRows(fs_files[path]) = <<>>
    THEN [exc |-> "ValueError", cause |-> "empty", data |-> <<>>]
    ELSE [exc |-> "none", cause |-> "none", data |-> DictRows(fs_files[path])]

\* path.open("w") followed by json.dump: open fails and leaves the file alone,
\* or it creates or truncates the file, which the dump then fills unless a
\* write fails on the way
WriteJson(files, path, text, fault) ==
    IF fault = "write_denied"
    THEN [exc |-> "PermissionError", cause |-> "write_denied", files |-> files]
    ELSE IF fault = "write_fails"
    THEN [exc |-> "OSError", cause |-> "write_fails",
          files |-> WithFile(files, path, Unfinished)]
    ELSE [exc |-> "none", cause |-> "none", files |-> WithFile(files, path, text)]

\* The JSON text convert writes for the rows `rows`
RowsText(rows) == [kind |-> "json", body |-> rows]

\* (a changed convert: the destination opened before the source is read)
ConvertOpensFirst(c, fault) ==
    IF Exists(c.destination) /\ ~c.over_write
    THEN [exc |-> "FileExistsError", cause |-> "exists", files |-> fs_files]
    ELSE LET r == ReadCsv(c.source, fault)
             w == WriteJson(fs_files, c.destination, RowsText(r.data), fault)
         IN  IF w.exc # "none"
             THEN [exc |-> Reraised(ConvertHandlers, w.exc), cause |-> w.cause,
                   files |-> w.files]
             ELSE IF r.exc # "none"
             THEN [exc |-> Reraised(ConvertHandlers, r.exc), cause |-> r.cause,
                   files |-> WithFile(fs_files, c.destination, Unfinished)]
             ELSE [exc |-> "none", cause |-> "none", files |-> w.files]

\* lines 58-83, convert: the exception raised, what its message reports,
\* and the files left
ConvertOutcome(c, fault) ==
    IF Exists(c.destination) /\ ~c.over_write
    THEN [exc |-> "FileExistsError", cause |-> "exists", files |-> fs_files]
    ELSE LET r == ReadCsv(c.source, fault)
             w == WriteJson(fs_files, c.destination, RowsText(r.data), fault)
         IN  IF r.exc # "none"
             THEN [exc |-> Reraised(ConvertHandlers, r.exc), cause |-> r.cause,
                   files |-> fs_files]
             ELSE IF w.exc # "none"
             THEN [exc |-> Reraised(ConvertHandlers, w.exc), cause |-> w.cause,
                   files |-> w.files]
             ELSE [exc |-> "none", cause |-> "none", files |-> w.files]

(***************************************************************************)
(* AppJsonFlattener.main                                                   *)
(***************************************************************************)
\* line 105: flat_<name> beside the source
OutputPath(source) == Path(source.dir, "flat_" \o source.stem, source.ext)

\* lines 137-139, _read_json
ReadJson(path, fault) ==
    IF fault = "read_denied"
    THEN [exc |-> "PermissionError", cause |-> "read_denied", data |-> Scalar(0)]
    ELSE IF fs_files[path].kind = "binary"
    THEN [exc |-> "UnicodeDecodeError", cause |-> "undecodable", data |-> Scalar(0)]
    ELSE IF fs_files[path].kind # "json"
    THEN [exc |-> "JSONDecodeError", cause |-> "malformed", data |-> Scalar(0)]
    ELSE [exc |-> "none", cause |-> "none", data |-> fs_files[path].body[1]]

\* lines 92-129, main once the arguments are parsed: the exception raised,
\* what its message reports, and the files left
MainOutcome(source, overwrite, fault) ==
    IF ~Exists(source)
    THEN [exc |-> "FileNotFoundError", cause |-> "missing", files |-> fs_files]
    ELSE IF Lower(source.ext) # ".json"
    THEN [exc |-> "ValueError", cause |-> "extension", files |-> fs_files]
    ELSE IF Exists(OutputPath(source)) /\ ~overwrite
    THEN [exc |-> "FileExistsError", cause |-> "exists", files |-> fs_files]
    ELSE LET r == ReadJson(source, fault)
             w == WriteJson(fs_files, OutputPath(source),
                            JsonText(AsDict(flatten(r.data, EmptyStr))), fault)
         IN  IF r.exc # "none"
             THEN [exc |-> Reraised(MainHandlers, r.exc), cause |-> r.cause,
                   files |-> fs_files]
             ELSE IF w.exc # "none"
             THEN [exc |-> Reraised(MainHandlers, w.exc), cause |-> w.cause,
                   files |-> w.files]
             ELSE [exc |-> "none", cause |-> "none", files |-> w.files]

(***************************************************************************)
(* The files, arguments and faults of the model.                           *)
(***************************************************************************)
Header == <<"name", "age">>
\* A CSV text of the header and n data rows
Rows(n) == <<Header>> \o [i \in 1..n |-> <<"r" \o ToString(i), ToString(30 + i)>>]

\* What the source data.csv may hold: the header and 0..MaxRows rows,
\* nothing at all, bytes that do not decode, a text csv rejects
CsvTexts == {CsvText(Rows(n)) : n \in 0..MaxRows} \cup {CsvText(<<>>), Binary, BadCsv}

DataCsv == Path(<<>>, "data", ".csv")
UpperCsv == Path(<<>>, "table", ".CSV")
NotesTxt == Path(<<>>, "notes", ".txt")
MissingCsv == Path(<<>>, "missing", ".csv")
OutputJson == Path(<<>>, "output", ".json")
OutDir == Path(<<>>, "out", "")
OutDataJson == Path(<<"out">>, "data", ".json")
ResTxt == Path(<<>>, "res", ".txt")
DocJson == Path(<<>>, "doc", ".json")
MissingJson == Path(<<>>, "missing", ".json")

SourceArgs == {PyStr(DataCsv), PyStr(UpperCsv), PyStr(NotesTxt), PyStr(MissingCsv), PyInt}
DestinationArgs == {PyStr(OutputJson), PyStr(OutDir), PyStr(ResTxt), PyInt}
\* over_write: a bool, or the str "True"
TrueText == PyStr(Path(<<>>, "True", ""))
OverWriteArgs == {PyBool(TRUE), PyBool(FALSE), TrueText}

\* What the environment does to a run: nothing, or it refuses the read,
\* refuses the write, or fails a write after the file was opened
Faults == {"none", "read_denied", "write_denied", "write_fails"}

NoCall ==
    [op |-> "none", source |-> PyInt, destination |-> PyInt,
     over_write |-> PyInt, flag |-> "absent", fault |-> "none"]
NoOutcome == [exc |-> "none", cause |-> "none", exit |-> -1]

\* The exit status of a script whose body ended with `exc`
ExitStatus(exc) == IF exc = "none" THEN 0 ELSE 1

(***************************************************************************)
(* The flattener as a state machine: an object constructed with its two    *)
(* separators, on which flatten is called, and called again on its result. *)
(***************************************************************************)
Init ==
    /\ \E p \in SepPairs : dict_sep = p[1] /\ list_sep = p[2]
    /\ calls = 0
    /\ data = Scalar(0)
    /\ flat_data = EmptyDict
    /\ fs_files = <<>> /\ fs_dirs = {<<>>}
    /\ pre_files = <<>> /\ pre_dirs = {<<>>}
    /\ pc = "start" /\ conv = NoConverter /\ call = NoCall /\ outcome = NoOutcome

\* flatten(x), x any document
Flatten ==
    /\ calls = 0
    /\ \E x \in Inputs :
         /\ data' = x
         /\ flat_data' = flatten(x, EmptyStr)
    /\ calls' = 1
    /\ UNCHANGED <<dict_sep, list_sep, tool_vars>>

\* flatten(flatten(x)): flatten called on the mapping it returned
FlattenAgain ==
    /\ calls = 1
    /\ data' = AsDict(flat_data)
    /\ flat_data' = flatten(AsDict(flat_data), EmptyStr)
    /\ calls' = 2
    /\ UNCHANGED <<dict_sep, list_sep, tool_vars>>

Next == Flatten \/ FlattenAgain

Spec == Init /\ [][Next]_vars

(***************************************************************************)
(* The two tools as a state machine over a file system.  A run is one of:  *)
(* Csv2JsonConverter(...) then convert(), the csv2json.py script, or the   *)
(* json_flattener.py script.                                               *)
(***************************************************************************)
InitTools ==
    /\ dict_sep = DefaultSeps[1] /\ list_sep = DefaultSeps[2]
    /\ calls = 0 /\ data = Scalar(0) /\ flat_data = EmptyDict
    /\ \E text \in CsvTexts, output, flat \in BOOLEAN,
          out \in {"absent", "empty", "holds data.json"} :
         /\ fs_files =
              [q \in {DataCsv, UpperCsv, NotesTxt, DocJson}
                     \cup (IF output THEN {OutputJson} ELSE {})
                     \cup (IF flat THEN {OutputPath(DocJson)} ELSE {})
                     \cup (IF out = "holds data.json" THEN {OutDataJson} ELSE {})
                 |-> IF q = DataCsv THEN text
                     ELSE IF q = UpperCsv THEN CsvText(Rows(1))
                     ELSE IF q = DocJson THEN JsonText(ObjectOfArray)
                     ELSE OldText]
         /\ fs_dirs = IF out = "absent" THEN {<<>>} ELSE {<<>>, <<"out">>}
    /\ pre_files = fs_files /\ pre_dirs = fs_dirs
    /\ pc = "start" /\ conv = NoConverter /\ call = NoCall /\ outcome = NoOutcome

\* Csv2JsonConverter(source, destination, over_write)
Construct ==
    /\ pc = "start"
    /\ \E source \in SourceArgs, destination \in DestinationArgs,
          over_write \in OverWriteArgs :
         LET r == InitOutcome(source, destination, over_write)
         IN  /\ call' = [op |-> "init", source |-> source,
                         destination |-> destination, over_write |-> over_write,
                         flag |-> "absent", fault |-> "none"]
             /\ outcome' = [exc |-> r.exc, cause |-> "none", exit |-> -1]
             /\ fs_dirs' = r.dirs
             /\ conv' = IF r.exc = "none"
                        THEN Converter(source, destination, over_write)
                        ELSE NoConverter
             /\ pc' = IF r.exc = "none" THEN "constructed" ELSE "done"
    /\ pre_files' = fs_files /\ pre_dirs' = fs_dirs
    /\ UNCHANGED <<fs_files, flattener_vars>>

\* converter.convert()
Convert ==
    /\ pc = "constructed"
    /\ \E fault \in Faults :
         LET r == ConvertOutcome(conv, fault)
         IN  /\ call' = [call EXCEPT !.op = "convert", !.fault = fault]
             /\ outcome' = [exc |-> r.exc, cause |-> r.cause, exit |-> -1]
             /\ fs_files' = r.files
    /\ pc' = "done"
    /\ pre_files' = fs_files /\ pre_dirs' = fs_dirs
    /\ UNCHANGED <<fs_dirs, conv, flattener_vars>>

\* csv2json.py lines 86-101: python csv2json.py -s SOURCE [-d DESTINATION]
\* [--over-write [VALUE]].  --over-write is declared with default=False and
\* no action, so it takes one value, which argparse hands over as a str;
\* given with no value, argparse ends the run with status 2.
CsvMain ==
    /\ pc = "start"
    /\ \E source \in SourceArgs \ {PyInt}, destination \in DestinationArgs \ {PyInt},
          flag \in {"absent", "value", "novalue"}, fault \in Faults :
         LET over_write == IF flag = "absent" THEN PyBool(FALSE) ELSE TrueText
             i == InitOutcome(source, destination, over_write)
             c == ConvertOutcome(Converter(source, destination, over_write), fault)
         IN  /\ call' = [op |-> "csv2json.py", source |-> source,
                         destination |-> destination, over_write |-> over_write,
                         flag |-> flag, fault |-> fault]
             /\ IF flag = "novalue"
                THEN /\ outcome' = [exc |-> "SystemExit", cause |-> "usage", exit |-> 2]
                     /\ UNCHANGED <<fs_files, fs_dirs>>
                ELSE IF i.exc # "none"
                THEN /\ outcome' = [exc |-> i.exc, cause |-> "none",
                                    exit |-> ExitStatus(i.exc)]
                     /\ fs_dirs' = i.dirs
                     /\ UNCHANGED fs_files
                ELSE /\ outcome' = [exc |-> c.exc, cause |-> c.cause,
                                    exit |-> ExitStatus(c.exc)]
                     /\ fs_dirs' = i.dirs
                     /\ fs_files' = c.files
    /\ pc' = "done"
    /\ pre_files' = fs_files /\ pre_dirs' = fs_dirs
    /\ UNCHANGED <<conv, flattener_vars>>

\* json_flattener.py lines 146-152: python json_flattener.py -s SOURCE [-w]
FlattenerMain ==
    /\ pc = "start"
    /\ \E source \in {DocJson, NotesTxt, MissingJson}, overwrite \in BOOLEAN,
          fault \in Faults :
         LET r == MainOutcome(source, overwrite, fault)
         IN  /\ call' = [op |-> "json_flattener.py", source |-> PyStr(source),
                         destination |-> PyStr(OutputPath(source)),
                         over_write |-> PyBool(overwrite),
                         flag |-> IF overwrite THEN "given" ELSE "absent",
                         fault |-> fault]
             /\ outcome' = [exc |-> r.exc, cause |-> r.cause,
                            exit |-> ExitStatus(r.exc)]
             /\ fs_files' = r.files
    /\ pc' = "done"
    /\ pre_files' = fs_files /\ pre_dirs' = fs_dirs
    /\ UNCHANGED <<fs_dirs, conv, flattener_vars>>

NextTools == Construct \/ Convert \/ CsvMain \/ FlattenerMain

SpecTools == InitTools /\ [][NextTools]_vars

(***************************************************************************)
(* What the properties of flatten are stated with: the scalar leaves of a  *)
(* document with their root-to-leaf paths, and the keys written out from   *)
(* the paths.  None of this uses the operators of flatten above.           *)
(***************************************************************************)
\* A path segment is an object key or an array index
SegText(seg) == IF seg.isint THEN IntToStr(seg.n) ELSE seg.s
SegSep(seg) == IF seg.isint THEN list_sep ELSE dict_sep

RECURSIVE LeavesOf(_, _), LeavesOfItems(_, _, _)
\* The scalar leaves under x, as <<path, scalar>> pairs in document order
LeavesOf(x, path) ==
    IF x.t = "scalar" THEN << <<path, x>> >>
    ELSE LeavesOfItems(x, path, 1)
LeavesOfItems(x, path, i) ==
    IF i > Len(x.items) THEN <<>>
    ELSE LET seg == IF x.t = "list" THEN IntKey(i - 1) ELSE x.items[i][1]
             child == IF x.t = "list" THEN x.items[i] ELSE x.items[i][2]
         IN  LeavesOf(child, Append(path, seg)) \o LeavesOfItems(x, path, i + 1)

Leaves(x) == LeavesOf(x, <<>>)

\* The segments joined: the first as it is, each later one after its separator
RECURSIVE Joined(_)
Joined(path) ==
    IF path = <<>> THEN EmptyStr
    ELSE IF Len(path) = 1 THEN SegText(path[1])
    ELSE Joined(SubSeq(path, 1, Len(path) - 1))
         \o SegSep(path[Len(path)]) \o SegText(path[Len(path)])

\* The segments joined, a separator written only after a non-empty prefix
RECURSIVE JoinedNonEmpty(_)
JoinedNonEmpty(path) ==
    IF path = <<>> THEN EmptyStr
    ELSE LET prefix == JoinedNonEmpty(SubSeq(path, 1, Len(path) - 1))
             seg == path[Len(path)]
         IN  IF prefix = EmptyStr THEN SegText(seg)
             ELSE prefix \o SegSep(seg) \o SegText(seg)

Called == calls >= 1
UsesDefaultSeps == <<dict_sep, list_sep>> = DefaultSeps

\* The string keys of the objects of a document
RECURSIVE ObjectKeys(_)
ObjectKeys(x) ==
    (IF x.t = "dict" THEN {x.items[i][1].s : i \in 1..Len(x.items)} ELSE {})
    \cup UNION {ObjectKeys(Children(x)[i]) : i \in 1..Len(Children(x))}

Chars(s) == {s[i] : i \in 1..Len(s)}
DigitChars == {Digits[i] : i \in 1..Len(Digits)}
SepChars == Chars(dict_sep) \cup Chars(list_sep)

\* The separators are non-empty and hold no digit, and every object key is
\* non-empty and holds no character of a separator
SegmentsReadable(x) ==
    /\ dict_sep # EmptyStr /\ list_sep # EmptyStr
    /\ SepChars \cap DigitChars = {}
    /\ \A k \in ObjectKeys(x) : k # EmptyStr /\ Chars(k) \cap SepChars = {}

\* Leaf i is the last leaf, in document order, written under key k
IsLastLeafAt(lv, k, i) ==
    /\ JoinedNonEmpty(lv[i][1]) = k
    /\ \A j \in (i + 1)..Len(lv) : JoinedNonEmpty(lv[j][1]) # k

\* x is a single-level mapping: a dict whose values are all scalars
IsFlatMapping(x) ==
    x.t = "dict" /\ \A i \in 1..Len(x.items) : x.items[i][2].t = "scalar"

\* The items of a single-level mapping, as flatten returns a mapping
ItemsOf(x) == [i \in 1..Len(x.items) |-> <<x.items[i][1].s, x.items[i][2]>>]

\* Each object element of a top-level array has, for each of its keys k that
\* holds a scalar, the key str(i) + sep + k in the result
ArrayElementKeys(sep) ==
    \A i \in 1..Len(data.items) :
        data.items[i].t = "dict" =>
            \A j \in 1..Len(data.items[i].items) :
                LET e == data.items[i].items[j]
                IN  e[2].t = "scalar" =>
                        HasKey(flat_data, IntToStr(i - 1) \o sep \o e[1].s)

(***************************************************************************)
(* The properties of flatten.                                              *)
(***************************************************************************)
\* C1 (as stated): with the default separators [{"a":1},{"a":2}] flattens to
\* exactly {"0__a": 1, "1__a": 2}, and for a top-level array whose element i
\* is an object with key k holding a scalar the key is str(i) + list_sep + k.
C1_ArrayElementKeyUsesListSep ==
    (Called /\ data.t = "list") =>
        /\ ArrayElementKeys(list_sep)
        /\ (data = ArrayOfObjects /\ UsesDefaultSeps) =>
               DictEq(flat_data, << <<<<"0", "_", "_", "a">>, Scalar(1)>>,
                                    <<<<"1", "_", "_", "a">>, Scalar(2)>> >>)

\* C1 (amended): with the default separators [{"a":1},{"a":2}] flattens to
\* exactly {"0.a": 1, "1.a": 2}, and for a top-level array whose element i is
\* an object with key k holding a scalar the key is str(i) + dict_sep + k:
\* the separator is that of the segment it precedes, here an object key.
C1_ArrayElementKeyUsesDictSep ==
    (Called /\ data.t = "list") =>
        /\ ArrayElementKeys(dict_sep)
        /\ (data = ArrayOfObjects /\ UsesDefaultSeps) =>
               DictEq(flat_data, << <<<<"0", ".", "a">>, Scalar(1)>>,
                                    <<<<"1", ".", "a">>, Scalar(2)>> >>)

\* C1 witness: flatten has been called on [{"a":1},{"a":2}] with the defaults
C1_Witness ==
    calls = 1 /\ data = ArrayOfObjects /\ UsesDefaultSeps /\ Len(flat_data) = 2

\* C2 (as stated): the keys of the result are the leaves' paths, the first
\* segment written as it is and every later one after its own separator;
\* {"a": [1,2]} flattens to {"a__0": 1, "a__1": 2} with the defaults.
C2_KeysAreJoinedPaths ==
    (Called /\ IsContainer(data)) =>
        /\ Keys(flat_data) =
               {Joined(Leaves(data)[i][1]) : i \in 1..Len(Leaves(data))}
        /\ (data = ObjectOfArray /\ UsesDefaultSeps) =>
               DictEq(flat_data, << <<<<"a", "_", "_", "0">>, Scalar(1)>>,
                                    <<<<"a", "_", "_", "1">>, Scalar(2)>> >>)

\* C2 (amended): the keys of the result are the leaves' paths, a segment
\* written after its own separator only when the key built from the segments
\* before it is non-empty (so the separator is left out after a path of
\* empty-string keys, as it is before the first segment);
\* {"a": [1,2]} flattens to {"a__0": 1, "a__1": 2} with the defaults.
C2_KeysAreJoinedNonEmptyPaths ==
    (Called /\ IsContainer(data)) =>
        /\ Keys(flat_data) =
               {JoinedNonEmpty(Leaves(data)[i][1]) : i \in 1..Len(Leaves(data))}
        /\ (data = ObjectOfArray /\ UsesDefaultSeps) =>
               DictEq(flat_data, << <<<<"a", "_", "_", "0">>, Scalar(1)>>,
                                    <<<<"a", "_", "_", "1">>, Scalar(2)>> >>)

\* C2 witness: flatten has been called on {"a": [1,2]} with the defaults
C2_Witness ==
    calls = 1 /\ data = ObjectOfArray /\ UsesDefaultSeps /\ Len(flat_data) = 2

\* C3 (as stated): with distinct separators no two scalar leaves get the same
\* key: the result has one key for each leaf of the document.
C3_DistinctLeavesDistinctKeys ==
    (Called /\ IsContainer(data) /\ dict_sep # list_sep) =>
        Len(flat_data) = Len(Leaves(data))

\* C3 (amended): with distinct, non-empty, digit-free separators, and every
\* object key of the document non-empty and free of the characters of the
\* separators, no two scalar leaves get the same key.
C3_ReadableLeavesDistinctKeys ==
    (Called /\ IsContainer(data) /\ dict_sep # list_sep
        /\ SegmentsReadable(data)) =>
        Len(flat_data) = Len(Leaves(data))

\* C3 witness: an object of two such keys has been flattened to two keys
C3_Witness ==
    /\ calls = 1 /\ dict_sep # list_sep /\ SegmentsReadable(data)
    /\ data.t = "dict" /\ Len(data.items) = 2 /\ Len(flat_data) = 2

\* The result has one key for each distinct key of a leaf, and holds under
\* each key the value of the last leaf, in document order, with that key
LeafCountLastWins ==
    LET lv == Leaves(data)
    IN  /\ Cardinality(Keys(flat_data)) =
               Cardinality({JoinedNonEmpty(lv[i][1]) : i \in 1..Len(lv)})
        /\ \A n \in 1..Len(flat_data) :
               \E i \in 1..Len(lv) :
                   /\ IsLastLeafAt(lv, flat_data[n][1], i)
                   /\ flat_data[n][2] = lv[i][2]

\* C4 (as stated): for every document the number of keys of the result is the
\* number of its scalar leaves, leaves with the same key counted once, and a
\* key holds the value of the last of its leaves.
C4_LeafCountAnyDocument == Called => LeafCountLastWins

\* C4 (amended): the same for every document whose top-level value is an
\* object or an array (a bare scalar is one leaf and flattens to no key).
C4_LeafCountOfContainers == (Called /\ IsContainer(data)) => LeafCountLastWins

\* C4 witness: two leaves of the flattened document have met on one key
C4_Witness ==
    calls = 1 /\ IsContainer(data) /\ Len(flat_data) < Len(Leaves(data))
        /\ Len(flat_data) >= 1

\* C5: a document with no scalar leaf, and a bare scalar, flatten to the
\* empty mapping; empty objects and arrays add no key: every value of the
\* result is a scalar leaf of the document, no more keys than leaves.
C5_NoKeyWithoutLeaf ==
    Called =>
        /\ (~IsContainer(data) \/ Leaves(data) = <<>>) => flat_data = EmptyDict
        /\ Len(flat_data) <= Len(Leaves(data))
        /\ \A n \in 1..Len(flat_data) :
               \E i \in 1..Len(Leaves(data)) :
                   flat_data[n][2] = Leaves(data)[i][2]

\* C5 witness: a document with an empty object or array beside a scalar
C5_Witness ==
    /\ calls = 1 /\ IsContainer(data) /\ Len(flat_data) = 1
    /\ \E i \in 1..Len(data.items) :
           IsContainer(Children(data)[i]) /\ Children(data)[i].items = <<>>

\* C6: a single-level mapping flattens to a mapping equal to it, and so does
\* the result of flatten when flatten is called on it.
C6_FlatMappingUnchanged ==
    /\ (Called /\ IsFlatMapping(data)) => DictEq(flat_data, ItemsOf(data))
    /\ calls = 2 => IsFlatMapping(data)

\* C6 witness: flatten called on its own result, of two keys made of paths
C6_Witness ==
    /\ calls = 2 /\ Len(flat_data) = 2
    /\ \A n \in 1..Len(flat_data) : Len(flat_data[n][1]) > 1

(***************************************************************************)
(* The properties of the two tools.                                        *)
(***************************************************************************)
\* The last run was one of the two scripts, undisturbed by the environment,
\* on a source that exists, has the right suffix and holds what the tool
\* converts (a CSV text with a data row; a JSON text)
ScriptRunOnValidSource ==
    /\ pc = "done" /\ call.fault = "none"
    /\ call.source.path \in DOMAIN pre_files
    /\ \/ /\ call.op = "csv2json.py"
          /\ Lower(call.source.path.ext) = ".csv"
          /\ pre_files[call.source.path].kind = "csv"
          /\ Len(pre_files[call.source.path].body) >= 2
       \/ /\ call.op = "json_flattener.py"
          /\ Lower(call.source.path.ext) = ".json"
          /\ pre_files[call.source.path].kind = "json"

\* The file the last script run writes to
ScriptDestination ==
    IF call.op = "csv2json.py"
    THEN DestinationPath(call.source, call.destination)
    ELSE call.destination.path

\* What a successful run leaves in it
ScriptOutput ==
    IF call.op = "csv2json.py"
    THEN RowsText(DictRows(pre_files[call.source.path]))
    ELSE JsonText(AsDict(flatten(pre_files[call.source.path].body[1], EmptyStr)))

\* C7: either script, run on a valid source whose output file exists, fails
\* with FileExistsError and leaves the file as it was when the overwrite flag
\* is absent, and succeeds and replaces the file when the flag is given.
C7_OverwriteGating ==
    (ScriptRunOnValidSource /\ ScriptDestination \in DOMAIN pre_files) =>
        IF call.flag = "absent"
        THEN /\ outcome.exc = "FileExistsError" /\ outcome.exit = 1
             /\ fs_files = pre_files
        ELSE /\ outcome.exc = "none" /\ outcome.exit = 0
             /\ fs_files[ScriptDestination] = ScriptOutput

\* convert() has run, undisturbed, and was not stopped by an existing destination
ConvertRan ==
    /\ pc = "done" /\ call.op = "convert" /\ call.fault = "none"
    /\ ~(conv.destination \in DOMAIN pre_files /\ ~conv.over_write)

\* C8: convert() on a source holding only the header row fails with the
\* ValueError that says the source is empty, not with RuntimeError.
C8_HeaderOnlyIsValueError ==
    (ConvertRan /\ pre_files[conv.source] = CsvText(<<Header>>)) =>
        outcome.exc = "ValueError"

\* C9: when the constructor raises, the file system is as it was: no
\* directory has been created.
C9_FailedInitLeavesNoTrace ==
    (pc = "done" /\ call.op = "init" /\ outcome.exc # "none") =>
        fs_files = pre_files /\ fs_dirs = pre_dirs

====
